---- MODULE Spec2Model ----
(***************************************************************************)
(* Model of the two editor services of vscode-antd-rush:                   *)
(*   - HoverProvider.provideHover            (src/unnamed/part_000)        *)
(*   - AntdProvideCompletionItem.provideCompletionItems                    *)
(*                                           (src/src/CompletionItem.ts)   *)
(* and of the catalog matcher they rest on (normalizeName,                 *)
(* fuzzySearchComponentMapping, tryMatchComponentName).                    *)
(*                                                                         *)
(* Representation.  A JavaScript string that the code inspects character   *)
(* by character (component names, symbol names, folder names) is a tuple   *)
(* of one-character strings; a string the code only passes around or uses  *)
(* as a dictionary key (handler names, the word under the cursor, paths)   *)
(* is a TLA+ string.  null and undefined are the tuples null and           *)
(* undefined, which no name or list of the model equals.  An async         *)
(* function is cut at its awaits: one action runs the synchronous code     *)
(* from one await to the next, the awaited value being the action's input. *)
(***************************************************************************)
EXTENDS Naturals, Sequences, FiniteSets

VARIABLES
    antdComponentMap,     \* the catalog: ordered <<[key, methods]>>
    antdDocJson,          \* props table of the configured language
    rawTableJson,         \* component-level table of the configured language
    op,                   \* the resolution under way: "none", "hover", "completion", "match"
    pc,                   \* where the running async function is suspended
    token,                \* token.isCancellationRequested when the request starts
    pending,              \* external requests issued and not yet answered
    calls,                \* external requests issued by the running resolution
    result,               \* how the resolution ended
    propText,             \* hover: word under the cursor
    definitions,          \* hover: answer of vscode.executeDefinitionProvider
    typeDefinitions,      \* hover: answer of vscode.executeTypeDefinitionProvider
                          \*   (both dropped when provideHover moves on)
    definitionLoc,        \* hover: value of getDefinitionInAntdModule()
    nodeType,             \* hover: getAstNodeType(interaceName).type
    interaceName,         \* hover: container symbol at definitionLoc
    triggerCharacter,     \* completion: context.triggerCharacter
    componentName,        \* closest antd JSX element (hover: antdComponentName)
    matchArgs             \* matcher: <<symbolName, libName>> last resolved

vars == <<antdComponentMap, antdDocJson, rawTableJson, op, pc, token, pending,
          calls, result, propText, definitions, typeDefinitions, definitionLoc,
          nodeType, interaceName, triggerCharacter, componentName, matchArgs>>

(***************************************************************************)
(* Bounds of the model.                                                    *)
(***************************************************************************)
MaxNameLen == 2      \* longest symbol or folder name drawn
MaxKeys == 2         \* most entries in a catalog
MaxLocs == 2         \* most locations a lookup answers with

null == <<"null">>
undefined == <<"undefined">>

(***************************************************************************)
(* Characters and names.                                                   *)
(***************************************************************************)
Chars == {"A", "a", "B", "b", "."}

toLowerCase(c) == CASE c = "A" -> "a" [] c = "B" -> "b" [] OTHER -> c

toUpperCase(c) == CASE c = "a" -> "A" [] c = "b" -> "B" [] OTHER -> c

SeqsUpTo(S, n) == UNION {[1..k -> S] : k \in 0..n}

Names == SeqsUpTo(Chars, MaxNameLen)


(***************************************************************************)
(* Name Normalizer: raw.split('.').join('').toLowerCase()                  *)
(***************************************************************************)
IsNotDot(c) == c # "."

normalizeName(raw) ==
    LET joined == SelectSeq(raw, IsNotDot)
    IN  [i \in 1..Len(joined) |-> toLowerCase(joined[i])]

(***************************************************************************)
(* Object.keys(antdComponentMap): the catalog's keys in insertion order.   *)
(***************************************************************************)
ObjectKeys == [i \in 1..Len(antdComponentMap) |-> antdComponentMap[i].key]

KeySet == {ObjectKeys[i] : i \in 1..Len(ObjectKeys)}

\* antdComponentMap[key]: the entry stored under key (key is a catalog key)
Entry(key) ==
    antdComponentMap[CHOOSE i \in 1..Len(antdComponentMap) : antdComponentMap[i].key = key]

\* arr.find(com => normalizeName(com) === normalizeName(name)): the first
\* element whose normalized form is that of name, else undefined
find(arr, name) ==
    LET P(com) == normalizeName(com) = normalizeName(name)
    IN  IF \E i \in 1..Len(arr) : P(arr[i])
        THEN arr[CHOOSE i \in 1..Len(arr) : P(arr[i]) /\ \A j \in 1..(i-1) : ~P(arr[j])]
        ELSE undefined

\* a JavaScript string is falsy exactly when it is empty
Falsy(v) == v = undefined \/ v = null \/ v = <<>>

(***************************************************************************)
(* Catalog Matcher.                                                        *)
(***************************************************************************)
fuzzySearchComponentMapping(fuzzyName) ==
    LET exactKey == find(ObjectKeys, fuzzyName)
    IN  IF Falsy(exactKey) THEN null ELSE exactKey

\* faulty variant: the folder tier is tried before the symbol tier
tryMatchComponentName_FolderFirst(symbolName, libName) ==
    LET exactKey == find(ObjectKeys, symbolName)
        libKey   == find(ObjectKeys, libName)
        fuzzyKey == find(ObjectKeys, libName \o symbolName)
    IN  IF ~Falsy(libKey) THEN libKey
        ELSE IF ~Falsy(exactKey) THEN exactKey
        ELSE IF Falsy(fuzzyKey) THEN null
        ELSE fuzzyKey

\* faulty variant: the fuzzy tier concatenates symbol + folder instead of folder + symbol
tryMatchComponentName_SymbolFirstConcat(symbolName, libName) ==
    LET exactKey == find(ObjectKeys, symbolName)
        libKey   == find(ObjectKeys, libName)
        fuzzyKey == find(ObjectKeys, symbolName \o libName)
    IN  IF ~Falsy(exactKey) THEN exactKey
        ELSE IF ~Falsy(libKey) THEN libKey
        ELSE IF Falsy(fuzzyKey) THEN null
        ELSE fuzzyKey

tryMatchComponentName(symbolName, libName) ==
    LET exactKey == find(ObjectKeys, symbolName)
        libKey   == find(ObjectKeys, libName)
        fuzzyKey == find(ObjectKeys, libName \o symbolName)
    IN  IF ~Falsy(exactKey) THEN exactKey
        ELSE IF ~Falsy(libKey) THEN libKey
        ELSE IF Falsy(fuzzyKey) THEN null
        ELSE fuzzyKey

(***************************************************************************)
(* Symbol Classifier: name[0].toUpperCase() !== name[0] ? 'props' :        *)
(* 'component'                                                             *)
(***************************************************************************)
getAstNodeType(name) ==
    [type |-> IF toUpperCase(name[1]) # name[1] THEN "props" ELSE "component"]

(***************************************************************************)
(* Static data.  Catalog keys are display names, unique under              *)
(* normalization; each entry lists its handlers or has no methods field.   *)
(***************************************************************************)
KeyUniverse == {<<"A">>, <<"B">>, <<"A", "B">>, <<"A", ".", "B">>}

KeySeqs ==
    {s \in SeqsUpTo(KeyUniverse, MaxKeys) :
        \A i, j \in 1..Len(s) : i # j => normalizeName(s[i]) # normalizeName(s[j])}

\* catalogs over the key sequences, each entry's methods drawn from methodChoices
Catalogs(methodChoices) ==
    UNION {{[i \in 1..Len(ks) |-> [key |-> ks[i], methods |-> m[i]]] :
                m \in [1..Len(ks) -> methodChoices]} : ks \in KeySeqs}


\* the methods field of a catalog entry: absent, or a list of handler names
MethodChoices ==
    {undefined, <<>>, <<"onClick">>, <<"onClick", "onFocus">>, <<"onFocus", "onClick">>}

\* a component's record in the props table: the set of props it documents
DocPropChoices == {{"onClick"}}

\* props tables: some catalog keys documented, each with a set of props
DocTables(keys) ==
    UNION {[dom -> DocPropChoices] : dom \in SUBSET keys}

\* component-level tables: some catalog keys have an ordered list of prose blocks
RawTables(keys) ==
    UNION {[dom -> {<<"table">>}] : dom \in SUBSET keys}

KeysOf(catalog) == {catalog[i].key : i \in 1..Len(catalog)}

(***************************************************************************)
(* Locations.  A location is known by its uri.path.                        *)
(***************************************************************************)
nullLoc == "null"

Paths == {"/app/src/App.tsx",
          "/app/node_modules/antd/lib/index.d.ts",
          "/app/node_modules/antd/lib/a/index.d.ts"}

\* utils.matchNodeModules: the path lies inside the installed antd module
matchNodeModules(path) ==
    path \in {"/app/node_modules/antd/lib/index.d.ts",
              "/app/node_modules/antd/lib/a/index.d.ts"}

\* utils.matchAntdModule: null, or the componentFolder of its answer
matchAntdModule(path) ==
    IF path = "/app/node_modules/antd/lib/a/index.d.ts" THEN <<"a">> ELSE null

\* what a lookup answers: undefined, or a list of locations
LookupAnswers == {undefined} \cup SeqsUpTo(Paths, MaxLocs)

\* definitions || []
OrEmpty(v) == IF v = undefined THEN <<>> ELSE v

\* faulty variant: the plain definition is preferred to the type definition
getDefinitionInAntdModule_DefinitionFirst(defs, typeDefs) ==
    LET definitionsUnderAntd == SelectSeq(OrEmpty(defs), matchNodeModules)
        typeDefinitionsUnderAntd == SelectSeq(OrEmpty(typeDefs), matchNodeModules)
    IN  IF Len(definitionsUnderAntd) # 0 THEN definitionsUnderAntd[1]
        ELSE IF Len(typeDefinitionsUnderAntd) # 0 THEN typeDefinitionsUnderAntd[1]
        ELSE nullLoc

\* faulty variant: the answers are not filtered by matchNodeModules
getDefinitionInAntdModule_Unfiltered(defs, typeDefs) ==
    LET definitionsUnderAntd == OrEmpty(defs)
        typeDefinitionsUnderAntd == OrEmpty(typeDefs)
    IN  IF Len(typeDefinitionsUnderAntd) # 0 THEN typeDefinitionsUnderAntd[1]
        ELSE IF Len(definitionsUnderAntd) # 0 THEN definitionsUnderAntd[1]
        ELSE nullLoc

\* the part of getDefinitionInAntdModule after both answers have arrived
getDefinitionInAntdModule(defs, typeDefs) ==
    LET definitionsUnderAntd == SelectSeq(OrEmpty(defs), matchNodeModules)
        typeDefinitionsUnderAntd == SelectSeq(OrEmpty(typeDefs), matchNodeModules)
    IN  IF Len(typeDefinitionsUnderAntd) # 0 THEN typeDefinitionsUnderAntd[1]
        ELSE IF Len(definitionsUnderAntd) # 0 THEN definitionsUnderAntd[1]
        ELSE nullLoc


(***************************************************************************)
(* Inputs of a request.                                                    *)
(***************************************************************************)
\* words the cursor can be on
Words == {"onClick", "size"}

\* what getContainerSymbolAtLocation answers: null or a symbol name
SymbolNames == {<<"A">>, <<"B">>, <<"a">>, <<"b", "A">>, <<".", "A">>, <<"B", "a">>}

\* context.triggerCharacter; "undefined" stands for a request without one
TriggerCharacters == {"undefined", "!", "#", "."}

\* what getParentsWhen(..., isClassExtendsReactComponent, 'outward') answers
ClassParents == {"null", "ClassDeclaration"}

\* ast.getClosetAntdJsxElementNode: null or the catalog key of the closest
\* enclosing JSX element that is a known component
JsxAnswers == {null} \cup KeySet

Running == [kind |-> "running", value |-> <<>>]
Returned(k, v) == [kind |-> k, value |-> v]
Thrown(e) == [kind |-> "throw", value |-> e]

Idle == pc \in {"idle", "done"}

(***************************************************************************)
(* HoverProvider.provideHover                                              *)
(***************************************************************************)
hoverLocals == <<propText, definitions, typeDefinitions, definitionLoc, nodeType, interaceName>>
completionLocals == <<triggerCharacter, componentName>>
static == <<antdComponentMap, antdDocJson, rawTableJson>>

\* lines 44-50 and 162-169: a new provider is constructed with the token, the
\* word under the cursor is read and the definition lookup is issued
provideHover ==
    /\ Idle
    /\ \E cancelled \in BOOLEAN, word \in Words :
          /\ token' = cancelled
          /\ propText' = word
    /\ op' = "hover"
    /\ pc' = "awaitDefinitions"
    /\ calls' = {"executeDefinitionProvider"}
    /\ pending' = {"executeDefinitionProvider"}
    /\ result' = Running
    /\ definitions' = undefined
    /\ typeDefinitions' = undefined
    /\ definitionLoc' = nullLoc
    /\ nodeType' = "none"
    /\ interaceName' = null
    /\ componentName' = null
    /\ UNCHANGED <<static, triggerCharacter, matchArgs>>

\* lines 165-174: the first await inside the array literal ends; only then is
\* the second element evaluated, which issues the type-definition lookup
DefinitionsResolve ==
    /\ op = "hover" /\ pc = "awaitDefinitions"
    /\ \E answer \in LookupAnswers : definitions' = answer
    /\ pc' = "awaitTypeDefinitions"
    /\ calls' = calls \cup {"executeTypeDefinitionProvider"}
    /\ pending' = {"executeTypeDefinitionProvider"}
    /\ UNCHANGED <<static, op, token, result, propText, typeDefinitions, definitionLoc,
                   nodeType, interaceName, completionLocals, matchArgs>>

\* lines 170-197 and 50-53: the second await ends, Promise.all joins the two
\* values, getDefinitionInAntdModule returns and provideHover either returns
\* (the two answers stay as received) or asks for the container symbol (the
\* two answers, locals of the call that returned, are dropped)
TypeDefinitionsResolve ==
    /\ op = "hover" /\ pc = "awaitTypeDefinitions"
    /\ \E answer \in LookupAnswers :
          LET loc == getDefinitionInAntdModule(definitions, answer)
          IN  /\ definitionLoc' = loc
              /\ IF loc = nullLoc
                 THEN /\ pc' = "done"
                      /\ result' = Returned("undefined", <<>>)
                      /\ pending' = {}
                      /\ calls' = calls
                      /\ typeDefinitions' = answer
                      /\ definitions' = definitions
                 ELSE /\ pc' = "awaitContainerSymbol"
                      /\ typeDefinitions' = undefined
                      /\ definitions' = undefined
                      /\ result' = result
                      /\ pending' = {"getContainerSymbolAtLocation"}
                      /\ calls' = calls \cup {"getContainerSymbolAtLocation"}
    /\ UNCHANGED <<static, op, token, propText, nodeType, interaceName,
                   completionLocals, matchArgs>>

\* lines 92-120: the component hover card
componentCard(name, loc) ==
    LET componentFolder == matchAntdModule(loc)
        comName == tryMatchComponentName(name, componentFolder)
    IN  IF componentFolder = null THEN Returned("undefined", <<>>)
        ELSE IF Falsy(comName) THEN Returned("undefined", <<>>)
        ELSE IF comName \notin KeySet THEN Thrown("antdRushErrorMsg")
        ELSE IF comName \notin DOMAIN rawTableJson THEN Thrown("TypeError")
        ELSE Returned("Hover", [card |-> "component", comName |-> comName,
                                componentFolder |-> componentFolder,
                                tables |-> rawTableJson[comName]])

\* lines 53-62 and 92-123: the container symbol arrives and is classified; a
\* component is resolved at once, a prop needs the enclosing JSX element
ContainerSymbolResolve ==
    /\ op = "hover" /\ pc = "awaitContainerSymbol"
    /\ \E answer \in {null} \cup SymbolNames :
          /\ interaceName' = answer
          /\ IF answer = null
             THEN /\ nodeType' = nodeType
                  /\ pc' = "done"
                  /\ result' = Returned("undefined", <<>>)
                  /\ pending' = {}
                  /\ calls' = calls
             ELSE /\ nodeType' = getAstNodeType(answer).type
                  /\ IF nodeType' = "props"
                     THEN /\ pc' = "awaitJsxElement"
                          /\ result' = result
                          /\ pending' = {"getClosetAntdJsxElementNode"}
                          /\ calls' = calls \cup {"getClosetAntdJsxElementNode"}
                     ELSE /\ pc' = "done"
                          /\ result' = componentCard(answer, definitionLoc)
                          /\ pending' = {}
                          /\ calls' = calls
    /\ UNCHANGED <<static, op, token, propText, definitions, typeDefinitions,
                   definitionLoc, completionLocals, matchArgs>>

\* lines 64-86: the props hover card
propsCard(antdComponentName, word) ==
    LET fuzzyComponentName == fuzzySearchComponentMapping(antdComponentName)
    IN  IF Falsy(antdComponentName) THEN Returned("undefined", <<>>)
        ELSE IF Falsy(fuzzyComponentName) THEN Returned("undefined", <<>>)
        ELSE IF fuzzyComponentName \notin DOMAIN antdDocJson THEN Thrown("antdRushErrorMsg")
        ELSE IF word \notin antdDocJson[fuzzyComponentName] THEN Thrown("TypeError")
        ELSE Returned("Hover", [card |-> "props", comName |-> fuzzyComponentName,
                                prop |-> word])

\* lines 63-87: the enclosing JSX element arrives
HoverJsxResolve ==
    /\ op = "hover" /\ pc = "awaitJsxElement"
    /\ \E answer \in JsxAnswers :
          /\ componentName' = answer
          /\ result' = propsCard(answer, propText)
    /\ pc' = "done"
    /\ pending' = {}
    /\ UNCHANGED <<static, op, token, calls, hoverLocals, triggerCharacter, matchArgs>>


(***************************************************************************)
(* AntdProvideCompletionItem.provideCompletionItems                        *)
(***************************************************************************)
\* insertKindMapping[triggerChar || '#']
insertKindMapping(triggerChar) ==
    LET k == IF triggerChar = "undefined" \/ triggerChar = "" THEN "#" ELSE triggerChar
    IN  CASE k = "!" -> "direct"
          [] k = "#" -> "inquiry"
          [] OTHER   -> "undefined"

\* insertion.addHandlerPrefix: the name of the generated handler, kept opaque
addHandlerPrefix(handlerName) == <<"addHandlerPrefix", handlerName>>

\* lines 60-75: the documentation card of a handler, or null
getHandlerDocument(compName, handlerName) ==
    IF compName \in DOMAIN antdDocJson /\ handlerName \in antdDocJson[compName]
    THEN <<"card", handlerName>>
    ELSE null

\* lines 77-114: one completion candidate; insertText is a list of text pieces
transformHandlerToItem(compName, handlerName, classComponentParent) ==
    LET isInClassComponent == classComponentParent # "null"
        doc == getHandlerDocument(compName, handlerName)
        insertKind == insertKindMapping(triggerCharacter)
    IN  [label |-> handlerName,
         kind |-> "Method",
         documentation |-> IF doc # null THEN doc ELSE undefined,
         insertText |->
            IF insertKind = "direct"
            THEN <<handlerName, "={">> \o (IF isInClassComponent THEN <<"this.">> ELSE <<>>)
                    \o addHandlerPrefix(handlerName) \o <<"} ">>
            ELSE IF insertKind = "inquiry" THEN <<handlerName>>
            ELSE undefined,
         command |-> [title |-> "afterCompletion",
                      command |-> "antdRush.afterCompletion",
                      arguments |-> <<"sharpSymbolRange", "document", handlerName,
                                      insertKind, classComponentParent>>]]

\* lines 116-120: a new provider is constructed with the token and the
\* context; the token is checked, then the JSX walk is asked for
provideCompletionItems ==
    /\ Idle
    /\ \E cancelled \in BOOLEAN, trigger \in TriggerCharacters :
          /\ token' = cancelled
          /\ triggerCharacter' = trigger
          /\ IF cancelled
             THEN /\ pc' = "done"
                  /\ result' = Returned("items", <<>>)
                  /\ pending' = {}
                  /\ calls' = {}
             ELSE /\ pc' = "awaitJsxElement"
                  /\ result' = Running
                  /\ pending' = {"getClosetAntdJsxElementNode"}
                  /\ calls' = {"getClosetAntdJsxElementNode"}
    /\ op' = "completion"
    /\ componentName' = null
    /\ UNCHANGED <<static, hoverLocals, matchArgs>>

\* lines 120-133: the enclosing JSX element arrives
CompletionJsxResolve ==
    /\ op = "completion" /\ pc = "awaitJsxElement"
    /\ \E answer \in JsxAnswers :
          /\ componentName' = answer
          /\ IF answer = null
             THEN /\ pc' = "done"
                  /\ result' = Returned("items", <<>>)
                  /\ pending' = {}
                  /\ calls' = calls
             ELSE IF Entry(answer).methods = undefined
             THEN /\ pc' = "done"
                  /\ result' = Returned("items", <<>>)
                  /\ pending' = {}
                  /\ calls' = calls
             ELSE /\ pc' = "awaitClassParent"
                  /\ result' = result
                  /\ pending' = {"getParentsWhen"}
                  /\ calls' = calls \cup {"getParentsWhen"}
    /\ UNCHANGED <<static, op, token, triggerCharacter, hoverLocals, matchArgs>>

\* faulty variant: the candidates come out in reverse catalog order
CompletionItems_Reversed(classComponentParent) ==
    LET availableHandler == Entry(componentName).methods
        n == Len(availableHandler)
    IN  [i \in 1..n |->
            transformHandlerToItem(componentName, availableHandler[n + 1 - i],
                                   classComponentParent)]

\* lines 135-137: availableHandler.map(handlerName => transformHandlerToItem(...))
CompletionItems(classComponentParent) ==
    LET availableHandler == Entry(componentName).methods
    IN  [i \in 1..Len(availableHandler) |->
            transformHandlerToItem(componentName, availableHandler[i], classComponentParent)]

\* lines 128-139: the enclosing class arrives and the candidates are built
ClassParentResolve ==
    /\ op = "completion" /\ pc = "awaitClassParent"
    /\ \E answer \in ClassParents : result' = Returned("items", CompletionItems(answer))
    /\ pc' = "done"
    /\ pending' = {}
    /\ UNCHANGED <<static, op, token, calls, completionLocals, hoverLocals, matchArgs>>

(***************************************************************************)
(* The pure functions applied to drawn inputs.                             *)
(***************************************************************************)
\* tryMatchComponentName applied to a symbol name and a folder name
Resolve ==
    /\ op = "none"
    /\ result' = Returned("match", tryMatchComponentName(matchArgs[1], matchArgs[2]))
    /\ op' = "match"
    /\ pc' = "done"
    /\ UNCHANGED <<static, token, pending, calls, hoverLocals, completionLocals, matchArgs>>

\* getDefinitionInAntdModule's choice applied to two lookup answers
Select ==
    /\ op = "none"
    /\ definitionLoc' = getDefinitionInAntdModule(definitions, typeDefinitions)
    /\ op' = "select"
    /\ pc' = "done"
    /\ result' = Returned("location", <<>>)
    /\ UNCHANGED <<static, token, pending, calls, propText, definitions, typeDefinitions,
                   nodeType, interaceName, completionLocals, matchArgs>>

(***************************************************************************)
(* Specifications.                                                         *)
(***************************************************************************)
NoRequest ==
    /\ op = "none" /\ pc = "idle" /\ token = FALSE
    /\ pending = {} /\ calls = {} /\ result = Running
    /\ propText = "" /\ definitionLoc = nullLoc /\ nodeType = "none" /\ interaceName = null
    /\ triggerCharacter = "undefined" /\ componentName = null

\* hover: any catalog with any props table and component-level table
HoverInit ==
    /\ antdComponentMap \in Catalogs({undefined})
    /\ antdDocJson \in DocTables(KeysOf(antdComponentMap))
    /\ rawTableJson \in RawTables(KeysOf(antdComponentMap))
    /\ definitions = undefined /\ typeDefinitions = undefined
    /\ matchArgs = <<<<>>, <<>>>>
    /\ NoRequest

HoverNext ==
    \/ provideHover
    \/ DefinitionsResolve
    \/ TypeDefinitionsResolve
    \/ ContainerSymbolResolve
    \/ HoverJsxResolve

HoverSpec == HoverInit /\ [][HoverNext]_vars

\* completion: any catalog with any handler lists and any props table
CompletionInit ==
    /\ antdComponentMap \in Catalogs(MethodChoices)
    /\ antdDocJson \in DocTables(KeysOf(antdComponentMap))
    /\ rawTableJson = <<>>
    /\ definitions = undefined /\ typeDefinitions = undefined
    /\ matchArgs = <<<<>>, <<>>>>
    /\ NoRequest

CompletionNext ==
    \/ provideCompletionItems
    \/ CompletionJsxResolve
    \/ ClassParentResolve

CompletionSpec == CompletionInit /\ [][CompletionNext]_vars

\* the catalog matcher on any catalog, symbol name and folder name
MatchInit ==
    /\ antdComponentMap \in Catalogs({undefined})
    /\ antdDocJson = <<>>
    /\ rawTableJson = <<>>
    /\ definitions = undefined /\ typeDefinitions = undefined
    /\ matchArgs \in Names \X Names
    /\ NoRequest

MatchNext == Resolve

MatchSpec == MatchInit /\ [][MatchNext]_vars

\* the choice of the definition location on any two lookup answers
SelectInit ==
    /\ antdComponentMap = <<>>
    /\ antdDocJson = <<>>
    /\ rawTableJson = <<>>
    /\ definitions \in LookupAnswers /\ typeDefinitions \in LookupAnswers
    /\ matchArgs = <<<<>>, <<>>>>
    /\ NoRequest

SelectNext == Select

SelectSpec == SelectInit /\ [][SelectNext]_vars


(***************************************************************************)
(* Properties.                                                             *)
(***************************************************************************)
Lookups == {"executeDefinitionProvider", "executeTypeDefinitionProvider"}

Resolving == op \in {"hover", "completion"}

EmptyResult ==
    \/ result.kind = "undefined"
    \/ result.kind = "items" /\ result.value = <<>>

RaisedConsistencyError == result.kind = "throw" /\ result.value = "antdRushErrorMsg"

\* the catalog keys whose normalized form equals that of name
HitSet(name) == {k \in KeySet : normalizeName(k) = normalizeName(name)}

AnyInside(locs) == \E i \in 1..Len(locs) : matchNodeModules(locs[i])

FirstInside(locs) ==
    locs[CHOOSE i \in 1..Len(locs) :
            matchNodeModules(locs[i]) /\ \A j \in 1..(i-1) : ~matchNodeModules(locs[j])]

\* hover, component path: the key the matcher gives for the container symbol
HoverComName == tryMatchComponentName(interaceName, matchAntdModule(definitionLoc))

\* C1: a resolution (completion or hover) that starts with the cancellation
\* signal already set returns an empty result and issues no external call.
C1_CancelledAtEntryIssuesNothing ==
    (Resolving /\ token) => (calls = {} /\ pc = "done" /\ EmptyResult)

\* C2: tryMatchComponentName returns the first hit of the three tiers symbol,
\* folder, folder + symbol (compared under normalization), null exactly when
\* all three fail; a symbol name that matches a key gets that key whatever
\* the folder name is.
C2_TiersInOrder ==
    op = "match" =>
        LET s == matchArgs[1]
            l == matchArgs[2]
        IN  /\ HitSet(s) # {} => result.value \in HitSet(s)
            /\ (HitSet(s) = {} /\ HitSet(l) # {}) => result.value \in HitSet(l)
            /\ (HitSet(s) = {} /\ HitSet(l) = {} /\ HitSet(l \o s) # {})
                  => result.value \in HitSet(l \o s)
            /\ result.value = null
                  <=> (HitSet(s) = {} /\ HitSet(l) = {} /\ HitSet(l \o s) = {})
            /\ s \in KeySet => result.value = s

\* C2 witness: the symbol name matches one key, the folder name another, and
\* the symbol's key is returned.
C2_Witness ==
    /\ op = "match"
    /\ HitSet(matchArgs[1]) # {}
    /\ HitSet(matchArgs[2]) # {}
    /\ HitSet(matchArgs[1]) # HitSet(matchArgs[2])
    /\ result.value \in HitSet(matchArgs[1])

\* C3 as stated: whenever the symbol name matches no key and some key K has
\* normalize(K) = normalize(folder + symbol), K is returned; when symbol,
\* folder and concatenation all match nothing, null is returned.
C3_FuzzyWheneverSymbolFails ==
    op = "match" =>
        LET s == matchArgs[1]
            l == matchArgs[2]
        IN  /\ (HitSet(s) = {} /\ HitSet(l \o s) # {}) => result.value \in HitSet(l \o s)
            /\ (HitSet(s) = {} /\ HitSet(l) = {} /\ HitSet(l \o s) = {})
                  => result.value = null

\* C3 amended: whenever neither the symbol name nor the folder name matches a
\* key and some key K has normalize(K) = normalize(folder + symbol), K is
\* returned; when symbol, folder and concatenation all match nothing, null is
\* returned.
C3_FuzzyWhenSymbolAndFolderFail ==
    op = "match" =>
        LET s == matchArgs[1]
            l == matchArgs[2]
        IN  /\ (HitSet(s) = {} /\ HitSet(l) = {} /\ HitSet(l \o s) # {})
                  => result.value \in HitSet(l \o s)
            /\ (HitSet(s) = {} /\ HitSet(l) = {} /\ HitSet(l \o s) = {})
                  => result.value = null

\* C3 witness: symbol and folder match nothing, both are non-empty names, and
\* the key matching their concatenation is returned.
C3_Witness ==
    /\ op = "match"
    /\ normalizeName(matchArgs[1]) # <<>>
    /\ normalizeName(matchArgs[2]) # <<>>
    /\ HitSet(matchArgs[1]) = {}
    /\ HitSet(matchArgs[2]) = {}
    /\ HitSet(matchArgs[2] \o matchArgs[1]) # {}
    /\ result.value \in HitSet(matchArgs[2] \o matchArgs[1])

\* C4: in hover, when a catalog key was found (props path: the enclosing JSX
\* component; component path: the key tryMatchComponentName returned) but the
\* paired table has no record (no entry for the word under the cursor in the
\* props table, no entry for the component in the component-level table), the
\* request ends by raising the antdRushErrorMsg error and in no other way.
C4_InconsistencyRaisesDescriptiveError ==
    (op = "hover" /\ pc = "done") =>
        /\ (/\ nodeType = "props"
            /\ componentName # null
            /\ \/ componentName \notin DOMAIN antdDocJson
               \/ propText \notin antdDocJson[componentName])
              => RaisedConsistencyError
        /\ (/\ nodeType = "component"
            /\ matchAntdModule(definitionLoc) # null
            /\ HoverComName # null
            /\ HoverComName \notin DOMAIN rawTableJson)
              => RaisedConsistencyError

\* C5: hover issues the type-definition lookup while the definition lookup is
\* still in flight, and moves on only when neither is in flight any more.
C5_LookupsInFlightTogether ==
    [][/\ ("executeTypeDefinitionProvider" \notin pending
              /\ "executeTypeDefinitionProvider" \in pending')
           => "executeDefinitionProvider" \in pending'
       /\ (op' = "hover" /\ pc' \notin {"awaitDefinitions", "awaitTypeDefinitions"})
           => pending' \cap Lookups = {}]_vars

\* C6: getDefinitionInAntdModule returns the first type-definition location
\* under the module path when there is one, even if plain definitions under
\* that path exist too; else the first plain-definition location under that
\* path; else none.  Several candidates never make it fail.
C6_TypeDefinitionPreferred ==
    op = "select" =>
        LET d == OrEmpty(definitions)
            td == OrEmpty(typeDefinitions)
        IN  /\ result.kind = "location"
            /\ definitionLoc = IF AnyInside(td) THEN FirstInside(td)
                               ELSE IF AnyInside(d) THEN FirstInside(d)
                               ELSE nullLoc

\* C6 witness: several type definitions and a plain definition under the
\* module path, at different locations; the first type definition under the
\* path is returned.
C6_Witness ==
    /\ op = "select"
    /\ Len(OrEmpty(typeDefinitions)) > 1
    /\ AnyInside(OrEmpty(typeDefinitions))
    /\ AnyInside(OrEmpty(definitions))
    /\ FirstInside(OrEmpty(typeDefinitions)) # FirstInside(OrEmpty(definitions))
    /\ definitionLoc = FirstInside(OrEmpty(typeDefinitions))

\* C7: once both lookups are in, hover goes on only with a location inside
\* the module path; with none (definitionLoc is null) it ends with no result
\* and none of the later steps (container symbol, classification, JSX walk,
\* catalog match, documentation lookup) has run; a hover result always comes
\* from a location inside the path.
C7_ForeignSymbolsFiltered ==
    (op = "hover" /\ pc \notin {"awaitDefinitions", "awaitTypeDefinitions"}) =>
        /\ definitionLoc # nullLoc => matchNodeModules(definitionLoc)
        /\ result.kind = "Hover" => matchNodeModules(definitionLoc)
        /\ ~matchNodeModules(definitionLoc) =>
              /\ pc = "done"
              /\ result.kind = "undefined"
              /\ calls = Lookups
              /\ interaceName = null
              /\ nodeType = "none"
              /\ componentName = null

\* C7 witness: the lookups answered with locations, all of them outside the
\* module path, and hover ended with no result after the two lookups only.
C7_Witness ==
    /\ op = "hover" /\ pc = "done"
    /\ Len(OrEmpty(definitions)) > 0
    /\ Len(OrEmpty(typeDefinitions)) > 0
    /\ ~AnyInside(OrEmpty(definitions))
    /\ ~AnyInside(OrEmpty(typeDefinitions))
    /\ definitionLoc = nullLoc
    /\ result.kind = "undefined"
    /\ calls = Lookups

\* C8: a completion that is not cancelled, with the cursor inside the JSX of
\* a catalog component whose handler list is h1..hn, yields exactly n
\* candidates, candidate i named hi; with trigger '#' each candidate's
\* insertion text is its handler name.  Outside a known component's JSX, or
\* when the component has no handler list, it yields no candidates.
C8_OneCandidatePerHandler ==
    (op = "completion" /\ pc = "done") =>
        /\ result.kind = "items"
        /\ IF ~token /\ componentName # null /\ Entry(componentName).methods # undefined
           THEN LET h == Entry(componentName).methods
                IN  /\ Len(result.value) = Len(h)
                    /\ \A i \in 1..Len(h) :
                          /\ result.value[i].label = h[i]
                          /\ triggerCharacter = "#" => result.value[i].insertText = <<h[i]>>
           ELSE result.value = <<>>

\* C8 witness: trigger '#', a component with handlers onClick, onFocus, and
\* two candidates with these names and insertion texts.
C8_Witness ==
    /\ op = "completion" /\ pc = "done" /\ ~token
    /\ triggerCharacter = "#"
    /\ componentName # null
    /\ Entry(componentName).methods = <<"onClick", "onFocus">>
    /\ Len(result.value) = 2
    /\ result.value[1].insertText = <<"onClick">>
    /\ result.value[2].insertText = <<"onFocus">>

\* C9: trigger '!' gives the direct form and every other trigger (also '#',
\* none, any other character) the inquiry form; so every candidate's insertion
\* kind, the one passed to the post-completion command, is direct or inquiry,
\* and its insertion text is set: the handler name for inquiry, the assignment
\* form for direct, with 'this.' exactly when an enclosing class was found.
C9_InsertKindIsDirectOrInquiry ==
    (op = "completion" /\ pc = "done") =>
        \A i \in 1..Len(result.value) :
            LET item == result.value[i]
                insertKind == item.command.arguments[4]
                classComponentParent == item.command.arguments[5]
            IN  /\ insertKind = IF triggerCharacter = "!" THEN "direct" ELSE "inquiry"
                /\ item.insertText # undefined
                /\ insertKind = "inquiry" => item.insertText = <<item.label>>
                /\ insertKind = "direct" =>
                      item.insertText =
                          <<item.label, "={">>
                          \o (IF classComponentParent # "null" THEN <<"this.">> ELSE <<>>)
                          \o addHandlerPrefix(item.label) \o <<"} ">>

\* C10: every absence case of either resolution ends with an empty result,
\* and the only failure a resolution raises is the consistency error.
C10_AbsenceIsNeverAnError ==
    (Resolving /\ pc = "done") =>
        /\ result.kind = "throw" => RaisedConsistencyError
        /\ (op = "hover" /\ definitionLoc = nullLoc) => EmptyResult
        /\ (op = "hover" /\ definitionLoc # nullLoc /\ interaceName = null) => EmptyResult
        /\ (op = "hover" /\ nodeType = "props" /\ componentName = null) => EmptyResult
        /\ (op = "hover" /\ nodeType = "component"
                /\ (matchAntdModule(definitionLoc) = null \/ HoverComName = null))
              => EmptyResult
        /\ (op = "completion" /\ ~token /\ componentName = null) => EmptyResult
        /\ (op = "completion" /\ componentName # null
                /\ Entry(componentName).methods = undefined) => EmptyResult

====
